---- MODULE Spec2Model ----
\* Verification model of ppasr/trainer.py (class PPASRTrainer): the training
\* loop, the checkpoint directory life cycle, the evaluation loop, the export
\* pipeline and the pretrained-weights loader.
EXTENDS Integers, Sequences, FiniteSets, TLC

\* ---------------------------------------------------------------- bounds
MaxEpoch == 6
MaxBatches == 2
MaxCalls == 2
MaxWorkers == 2
MaxDistEpoch == 4
MaxSamples == 3
MaxBatchSize == 2
MaxLabelLen == 5
MaxLongTail == 2
MaxLongEpoch == 1
MaxBothEpoch == 2

\* ---------------------------------------------------------------- program constants
LogEvery == 100
SaveEvery == 10000
KeepBack == 3
DefaultLrMilli == 1
DefaultCountThreshold == 2

\* ---------------------------------------------------------------- paths
\* A path is a sequence of one-token strings; a digit is always a token of its
\* own so that the regular expression \d+ of train() can be evaluated on it.
DigitChars == <<"0", "1", "2", "3", "4", "5", "6", "7", "8", "9">>

IsDigit(t) == \E i \in 1..10 : DigitChars[i] = t

DigitValue(t) == (CHOOSE i \in 1..10 : DigitChars[i] = t) - 1

RECURSIVE NatDigits(_)
NatDigits(n) == IF n < 10 THEN <<DigitChars[n + 1]>>
                ELSE NatDigits(n \div 10) \o <<DigitChars[(n % 10) + 1]>>

\* '%d' % n
FormatInt(n) == IF n < 0 THEN <<"-">> \o NatDigits(0 - n) ELSE NatDigits(n)

\* os.path.join(a, b)
PathJoin(a, b) == IF a # <<>> /\ a[Len(a)] = "/" THEN a \o b ELSE a \o <<"/">> \o b

\* the directory a path names, whether or not it is written with a trailing "/"
DirOf(p) == IF p # <<>> /\ p[Len(p)] = "/" THEN SubSeq(p, 1, Len(p) - 1) ELSE p

None == <<>>

SaveModelPath == <<"models", "/">>
DeepSpeech2 == <<"deepspeech", "2">>
DeepSpeech2Light == <<"deepspeech", "2", "_light">>
UnknownModel == <<"wav", "2", "vec">>
PretrainedPath == <<"pretrained", "/", "epoch_", "5", "0", "/">>

\* os.path.join(save_model_path, use_model, 'epoch_%d' % epoch)
ModelPath(save_model_path, use_model, epoch) ==
    PathJoin(PathJoin(save_model_path, use_model), <<"epoch_">> \o FormatInt(epoch))

\* os.path.join(save_model_path, self.use_model, 'infer')
InferPath(save_model_path, use_model) ==
    PathJoin(PathJoin(save_model_path, use_model), <<"infer">>)

\* the index of the last digit of p, 0 when p holds no digit
RECURSIVE LastDigitPos(_, _)
LastDigitPos(p, i) == IF i = 0 THEN 0
                      ELSE IF IsDigit(p[i]) THEN i ELSE LastDigitPos(p, i - 1)

\* the index where the run of digits ending at position i starts
RECURSIVE DigitRunStart(_, _)
DigitRunStart(p, i) == IF i > 1 /\ IsDigit(p[i - 1]) THEN DigitRunStart(p, i - 1) ELSE i

RECURSIVE DigitsToInt(_)
DigitsToInt(ds) == IF ds = <<>> THEN 0
                   ELSE 10 * DigitsToInt(SubSeq(ds, 1, Len(ds) - 1)) + DigitValue(ds[Len(ds)])

HasInt(p) == LastDigitPos(p, Len(p)) > 0

\* the epoch of the resume path counted as still to be run
LastEpochOfUnfinished(resume_model) ==
    IF resume_model = None THEN 0
    ELSE LET hi == LastDigitPos(resume_model, Len(resume_model))
         IN DigitsToInt(SubSeq(resume_model, DigitRunStart(resume_model, hi), hi)) - 1

\* int(re.findall(r'\d+', resume_model)[-1]) if resume_model is not None else 0
LastEpochOf(resume_model) ==
    IF resume_model = None THEN 0
    ELSE LET hi == LastDigitPos(resume_model, Len(resume_model))
         IN DigitsToInt(SubSeq(resume_model, DigitRunStart(resume_model, hi), hi))

\* ---------------------------------------------------------------- learning-rate scheduler
\* A learning rate is kept exactly, as milli * 1e-3 * 0.9^decay: the default
\* learning_rate = 1e-3 is one milli-unit, and gamma = 0.9 is applied decay times.
LearningRate == [milli |-> DefaultLrMilli, decay |-> 0]

\* ExponentialDecay.get_lr: base_lr * gamma ** last_epoch
DecayedLr(base, last_epoch) == [base EXCEPT !.decay = @ + last_epoch]

\* scheduler.step(): last_epoch += 1; last_lr = get_lr()
SchedulerStep(s) ==
    [s EXCEPT !.last_epoch = s.last_epoch + 1, !.last_lr = DecayedLr(s.base_lr, s.last_epoch + 1)]

\* ExponentialDecay(learning_rate, gamma=0.9, last_epoch): the constructor
\* stores last_epoch and takes one step
ExponentialDecay(learning_rate, last_epoch) ==
    SchedulerStep([base_lr |-> learning_rate, last_epoch |-> last_epoch, last_lr |-> learning_rate])

\* a scheduler's state_dict(): the keys last_epoch and last_lr
SchedulerStateDict(s) == [last_epoch |-> s.last_epoch, last_lr |-> s.last_lr]

\* a scheduler's set_state_dict(d)
SchedulerSetStateDict(s, d) == [s EXCEPT !.last_epoch = d.last_epoch, !.last_lr = d.last_lr]

\* ---------------------------------------------------------------- the vocabulary file
\* line 91: the first line of the vocabulary file
Blank == [char |-> "<blank>", count |-> 0 - 1]

\* item put behind every entry whose count is not below its own
RECURSIVE InsertByCount(_, _)
InsertByCount(sorted, item) ==
    IF sorted = <<>> THEN <<item>>
    ELSE IF Head(sorted).count >= item.count
    THEN <<Head(sorted)>> \o InsertByCount(Tail(sorted), item)
    ELSE <<item>> \o sorted

\* line 89: sorted(counter.items(), key=lambda x: x[1], reverse=True), the
\* entries of equal count in the order the counter holds them
RECURSIVE CountSorted(_)
CountSorted(items) ==
    IF items = <<>> THEN <<>>
    ELSE InsertByCount(CountSorted(SubSeq(items, 1, Len(items) - 1)), items[Len(items)])

\* lines 92-95: the entries written until the first count below the threshold
RECURSIVE VocabularyLines(_, _)
VocabularyLines(count_sorted, count_threshold) ==
    IF count_sorted = <<>> THEN <<>>
    ELSE IF Head(count_sorted).count < count_threshold THEN <<>>
    ELSE <<Head(count_sorted)>> \o VocabularyLines(Tail(count_sorted), count_threshold)

\* lines 89-95: the vocabulary file create_data writes for the counter items
Vocabulary(items, count_threshold) ==
    <<Blank>> \o VocabularyLines(CountSorted(items), count_threshold)

\* ---------------------------------------------------------------- state
VARIABLES
    fs,        \* the file system: directory -> (file name -> content)
    nranks,    \* paddle.distributed.get_world_size()
    vocabulary,\* the lines of dataset/vocabulary.txt, each a character and its count
    nbatches,  \* len(train_loader)
    test_set,  \* the held-out set: the decoded [out, label] pairs and the loader's batch_size
    args,      \* the arguments of the train() call in progress
    runs,      \* train(), evaluate() and export() calls made so far
    proc,      \* rank -> the locals of train() in that worker
    log,       \* the scalar log stream of directory 'log'
    effects,   \* side effects of the train() call in progress, with the rank that made them
    call,      \* the last evaluate() or export() call and its outcome
    ev,        \* the locals of the evaluation loop in progress
    recent     \* variant -> the distinct epochs last saved, the latest first, up to KeepBack

vars == <<fs, nranks, vocabulary, nbatches, test_set, args, runs, proc, log, effects, call, ev, recent>>

Ranks == 0..(nranks - 1)

ModelFile == "model.pdparams"
OptimizerFile == "optimizer.pdopt"
InferFile == "model.pdmodel"

\* os.path.exists(os.path.join(path, file))
Exists(f, path, file) == DirOf(path) \in DOMAIN f /\ file \in DOMAIN f[DirOf(path)]

\* paddle.load(os.path.join(path, file))
Load(f, path, file) == f[DirOf(path)][file]

\* ---------------------------------------------------------------- model and optimizer
\* vocab_size of the dataset built on the vocabulary file
VocabSize == Len(vocabulary)

\* DeepSpeech2Model(feat_size, vocab_size) / DeepSpeech2LightModel(vocab_size): the
\* freshly initialised state_dict, parameter name -> [shape, value]; the output
\* layer (fc of deepspeech2, out of deepspeech2_light) has the size of the
\* vocabulary
ModelInit(use_model) ==
    IF use_model = DeepSpeech2
    THEN [n \in {"conv", "rnn", "fc"} |->
            [shape |-> IF n = "rnn" THEN <<3, 8>>
                       ELSE IF n = "fc" THEN <<VocabSize>> ELSE <<8>>,
             value |-> 0]]
    ELSE [n \in {"conv", "rnn", "out"} |->
            [shape |-> IF n = "rnn" THEN <<3, 4>>
                       ELSE IF n = "out" THEN <<VocabSize>> ELSE <<8>>,
             value |-> 0]]

KnownModel(use_model) == use_model \in {DeepSpeech2, DeepSpeech2Light}

\* optimizer.step(): every parameter and the optimizer's accumulators move on
StepModel(m) == [n \in DOMAIN m |-> [m[n] EXCEPT !.value = @ + 1]]

\* optimizer.state_dict(): the accumulators and the scheduler's state_dict
OptimizerStateDict(p) == [accum |-> p.accum, LR_Scheduler |-> SchedulerStateDict(p.scheduler)]

\* Layer.set_state_dict(d): a parameter takes the value of its name in d when the
\* shapes agree, and is skipped with a warning otherwise
SetStateDict(m, d) ==
    [n \in DOMAIN m |->
        IF n \in DOMAIN d /\ d[n].shape = m[n].shape THEN [m[n] EXCEPT !.value = d[n].value]
        ELSE m[n]]

\* ---------------------------------------------------------------- save_model
\* save_model that removes the directory of epoch - 4
SaveModelKeepsFour(f, save_model_path, use_model, epoch, model, opt) ==
    LET model_path == ModelPath(save_model_path, use_model, epoch)
        old_model_path == ModelPath(save_model_path, use_model, epoch - KeepBack - 1)
        f1 == [d \in DOMAIN f \cup {model_path} |->
                 IF d = model_path THEN [n \in {ModelFile, OptimizerFile} |->
                                           IF n = ModelFile THEN model ELSE opt]
                 ELSE f[d]]
    IN [d \in DOMAIN f1 \ {old_model_path} |-> f1[d]]

\* save_model that removes every directory of the variant but those of epoch,
\* epoch - 1 and epoch - 2
SaveModelKeepsWindow(f, save_model_path, use_model, epoch, model, opt) ==
    LET model_path == ModelPath(save_model_path, use_model, epoch)
        old == IF model_path \in DOMAIN f THEN f[model_path] ELSE <<>>
        written == [n \in DOMAIN old \cup {ModelFile, OptimizerFile} |->
                      IF n = ModelFile THEN model
                      ELSE IF n = OptimizerFile THEN opt ELSE old[n]]
        f1 == [d \in DOMAIN f \cup {model_path} |-> IF d = model_path THEN written ELSE f[d]]
        old_model_paths == {ModelPath(save_model_path, use_model, e) :
                               e \in ((0 - KeepBack)..(MaxEpoch + KeepBack)) \ ((epoch - 2)..epoch)}
    IN [d \in DOMAIN f1 \ old_model_paths |-> f1[d]]

\* save_model(save_model_path, use_model, epoch, model, optimizer) on file system f
SaveModel(f, save_model_path, use_model, epoch, model, opt) ==
    LET model_path == ModelPath(save_model_path, use_model, epoch)
        old_model_path == ModelPath(save_model_path, use_model, epoch - KeepBack)
        old == IF model_path \in DOMAIN f THEN f[model_path] ELSE <<>>
        written == [n \in DOMAIN old \cup {ModelFile, OptimizerFile} |->
                      IF n = ModelFile THEN model
                      ELSE IF n = OptimizerFile THEN opt ELSE old[n]]
        f1 == [d \in DOMAIN f \cup {model_path} |-> IF d = model_path THEN written ELSE f[d]]
    IN [d \in DOMAIN f1 \ {old_model_path} |-> f1[d]]

\* the history of saves after save_model(use_model, epoch)
RecordSave(rec, use_model, epoch) ==
    LET others == SelectSeq(rec[use_model], LAMBDA e : e # epoch)
        all == <<epoch>> \o others
    IN [rec EXCEPT ![use_model] = IF Len(all) > KeepBack THEN SubSeq(all, 1, KeepBack) ELSE all]

\* the epoch_N directories present under a variant, as the set of their N
CheckpointEpochs(f, use_model) ==
    {e \in (0 - KeepBack)..(MaxEpoch + KeepBack) : ModelPath(SaveModelPath, use_model, e) \in DOMAIN f}

\* ---------------------------------------------------------------- the evaluation loop
\* a fraction a/b in lowest terms
RECURSIVE Gcd(_, _)
Gcd(a, b) == IF b = 0 THEN a ELSE Gcd(b, a % b)

Frac(a, b) == LET g == Gcd(a, b) IN [num |-> a \div g, den |-> b \div g]

FracAdd(x, y) == Frac(x.num * y.den + y.num * x.den, x.den * y.den)

Min2(a, b) == IF a < b THEN a ELSE b

\* cer(out_string, label) of ppasr.utils.metrics: the edit distance
RECURSIVE EditDistance(_, _)
EditDistance(a, b) ==
    IF a = <<>> THEN Len(b)
    ELSE IF b = <<>> THEN Len(a)
    ELSE LET ta == Tail(a)
             tb == Tail(b)
         IN IF Head(a) = Head(b) THEN EditDistance(ta, tb)
            ELSE 1 + Min2(EditDistance(ta, tb), Min2(EditDistance(ta, b), EditDistance(a, tb)))

\* len(test_loader): the batches a loader of batch_size cuts the samples into
NumBatches(ts) == (Len(ts.samples) + ts.batch_size - 1) \div ts.batch_size

\* the batch of index batch_id (from 0) of the loader
BatchOf(ts, batch_id) ==
    SubSeq(ts.samples, batch_id * ts.batch_size + 1,
           Min2((batch_id + 1) * ts.batch_size, Len(ts.samples)))

\* the loop body that starts c afresh with every batch
RECURSIVE AppendBatchCerFresh(_, _)
AppendBatchCerFresh(c, batch) ==
    IF batch = <<>> THEN <<>>
    ELSE <<Frac(EditDistance(batch[1].out, batch[1].label), Len(batch[1].label))>>
            \o AppendBatchCerFresh(c, Tail(batch))

\* lines 178-180 and 368-370: c.append(cer(out_string, label) / float(len(label)))
\* for the pairs of one batch
RECURSIVE AppendBatchCer(_, _)
AppendBatchCer(c, batch) ==
    IF batch = <<>> THEN c
    ELSE AppendBatchCer(Append(c, Frac(EditDistance(batch[1].out, batch[1].label),
                                       Len(batch[1].label))), Tail(batch))

\* a pair of the batch has an empty label: the division raises ZeroDivisionError
DividesByZero(batch) == \E i \in 1..Len(batch) : batch[i].label = <<>>

\* sum(c[lo..hi]), the range halved at each level to keep the evaluation shallow
RECURSIVE FracSumRange(_, _, _)
FracSumRange(c, lo, hi) ==
    IF lo > hi THEN Frac(0, 1)
    ELSE IF lo = hi THEN c[lo]
    ELSE LET mid == (lo + hi) \div 2
         IN FracAdd(FracSumRange(c, lo, mid), FracSumRange(c, mid + 1, hi))

FracSum(c) == FracSumRange(c, 1, Len(c))

\* lines 181, 374 and 375: float(sum(c) / len(c))
MeanOf(c) == LET t == FracSum(c) IN Frac(t.num, t.den * Len(c))

\* line 371
PrintsNow(batch_id) == batch_id % LogEvery = 0

\* ---------------------------------------------------------------- train()
ZeroScalar == [milli |-> 0, decay |-> 0]

NoArgs == [use_model |-> DeepSpeech2, num_epoch |-> 0, resume_model |-> None,
           pretrained_model |-> None]

IdleProc == [pc |-> "idle", err |-> "none", data_loaded |-> FALSE, last_epoch |-> 0,
             it |-> 0,
             epoch |-> 0, batch_id |-> 0, model |-> ModelInit(DeepSpeech2), accum |-> 0,
             scheduler |-> ExponentialDecay(LearningRate, 0 - 1),
             train_step |-> 0, test_step |-> 0, arrived |-> 0, stepped |-> 0,
             epochs_run |-> <<>>, saved |-> <<>>]

CtcGreedy == "ctc_greedy"
CtcBeamSearch == "ctc_beam_search"
OtherDecoder == "viterbi"

NoCall == [op |-> "none", path |-> None, use_model |-> DeepSpeech2, result |-> "none",
           cer |-> [num |-> 0, den |-> 1], decoder |-> CtcGreedy, installed |-> TRUE]

IdleEval == [pc |-> "idle", who |-> "none", batch_id |-> 0, c |-> <<>>, printed |-> <<>>,
             result |-> [num |-> 0, den |-> 1]]

Stopped(p) == p.pc \in {"idle", "done", "error"}

Fail(p, e) == [p EXCEPT !.pc = "error", !.err = e]

Effect(kind, r) == [kind |-> kind, rank |-> r]

\* add_scalar called with a constant step
ScalarUnindexed(series, value, index, r) ==
    [series |-> series, value |-> value, index |-> 0, rank |-> r]

\* writer.add_scalar(series, value, index)
Scalar(series, value, index, r) == [series |-> series, value |-> value, index |-> index, rank |-> r]

\* a train() call starts in every worker of the job, as one of at most calls
\* calls on the trainer
StartTrainWithin(a, calls) ==
    /\ runs < calls
    /\ \A r \in Ranks : Stopped(proc[r])
    /\ ev.pc # "loop"
    /\ args' = a
    /\ runs' = runs + 1
    /\ proc' = [r \in Ranks |-> [IdleProc EXCEPT !.pc = "setup"]]
    /\ effects' = {}
    /\ call' = NoCall
    /\ ev' = IdleEval
    /\ UNCHANGED <<fs, nranks, vocabulary, nbatches, test_set, log, recent>>

StartTrain(a) == StartTrainWithin(a, MaxCalls)

\* lines 207-212: rank and world size, the log directory cleared and the log
\* writer opened by rank 0; the worker then reaches fleet.init
Setup(r) ==
    /\ proc[r].pc = "setup"
    /\ log' = IF r = 0 THEN <<>> ELSE log
    /\ proc' = [proc EXCEPT ![r] = [@ EXCEPT !.pc = "data"]]
    /\ UNCHANGED <<fs, nranks, vocabulary, nbatches, test_set, args, runs, effects, call, ev, recent>>

\* lines 213-215: with several workers fleet.init(is_collective=True) returns
\* once every worker of the job has joined it
FleetJoined == nranks > 1 => \A q \in Ranks : proc[q].pc # "setup"

\* lines 213-241: the collective environment, then the datasets and the data
\* loaders
LoadData(r) ==
    /\ proc[r].pc = "data"
    /\ FleetJoined
    /\ proc' = [proc EXCEPT ![r] = [@ EXCEPT !.pc = "model", !.data_loaded = TRUE]]
    /\ UNCHANGED <<fs, nranks, vocabulary, nbatches, test_set, args, runs, log, effects, call, ev, recent>>

\* lines 243-265: the model of the variant, the epoch parsed from the resume
\* path, the scheduler and the optimizer
GetModel(r) ==
    /\ proc[r].pc = "model"
    /\ proc' = [proc EXCEPT ![r] =
          IF ~KnownModel(args.use_model) THEN Fail(@, "UnknownModel")
          ELSE IF args.resume_model # None /\ ~HasInt(args.resume_model) THEN Fail(@, "IndexError")
          ELSE LET last_epoch == LastEpochOf(args.resume_model)
               IN [@ EXCEPT !.pc = "pretrained", !.model = ModelInit(args.use_model),
                            !.last_epoch = last_epoch, !.it = last_epoch, !.accum = 0,
                            !.scheduler = ExponentialDecay(LearningRate, last_epoch - 1)]]
    /\ UNCHANGED <<fs, nranks, vocabulary, nbatches, test_set, args, runs, log, effects, call, ev, recent>>

\* the filter popping the entries whose shape matches
PretrainedKeptInverted(model_dict, model_state_dict) ==
    {n \in DOMAIN model_state_dict :
        ~(n \in DOMAIN model_dict /\ model_dict[n].shape = model_state_dict[n].shape)}

\* lines 274-279: the pretrained entries that reach set_dict, the shape-mismatched
\* ones popped
PretrainedKept(model_dict, model_state_dict) ==
    {n \in DOMAIN model_state_dict :
        ~(n \in DOMAIN model_dict /\ model_dict[n].shape # model_state_dict[n].shape)}

\* lines 269-283: the pretrained weights
LoadPretrained(r) ==
    /\ proc[r].pc = "pretrained"
    /\ proc' = [proc EXCEPT ![r] =
          IF args.pretrained_model = None THEN [@ EXCEPT !.pc = "resume"]
          ELSE IF ~Exists(fs, args.pretrained_model, ModelFile) THEN Fail(@, "FileNotFound")
          ELSE LET model_state_dict == Load(fs, args.pretrained_model, ModelFile)
                   kept == PretrainedKept(@.model, model_state_dict)
               IN [@ EXCEPT !.pc = "resume",
                            !.model = SetStateDict(@, [n \in kept |-> model_state_dict[n]])]]
    /\ UNCHANGED <<fs, nranks, vocabulary, nbatches, test_set, args, runs, log, effects, call, ev, recent>>

\* optimizer.set_state_dict(d): the accumulators and the scheduler's state
OptimizerSetStateDict(p, d) ==
    [p EXCEPT !.accum = d.accum, !.scheduler = SchedulerSetStateDict(@, d.LR_Scheduler)]

\* the resume load followed by a second load of the pretrained weights
LoadResumeThenPretrained(r) ==
    /\ proc[r].pc = "resume"
    /\ proc' = [proc EXCEPT ![r] =
          IF args.resume_model = None THEN [@ EXCEPT !.pc = "epoch"]
          ELSE IF ~Exists(fs, args.resume_model, ModelFile) THEN Fail(@, "AssertionError")
          ELSE IF ~Exists(fs, args.resume_model, OptimizerFile) THEN Fail(@, "AssertionError")
          ELSE LET resumed == SetStateDict(@.model, Load(fs, args.resume_model, ModelFile))
                   model_state_dict == IF args.pretrained_model = None THEN <<>>
                                       ELSE Load(fs, args.pretrained_model, ModelFile)
                   kept == PretrainedKept(resumed, model_state_dict)
               IN OptimizerSetStateDict(
                     [@ EXCEPT !.pc = "epoch",
                               !.model = SetStateDict(resumed, [n \in kept |-> model_state_dict[n]])],
                     Load(fs, args.resume_model, OptimizerFile))]
    /\ UNCHANGED <<fs, nranks, vocabulary, nbatches, test_set, args, runs, log, effects, call, ev, recent>>

\* a resume that loads the model blob and leaves the optimizer as built
LoadResumeModelOnly(r) ==
    /\ proc[r].pc = "resume"
    /\ proc' = [proc EXCEPT ![r] =
          IF args.resume_model = None THEN [@ EXCEPT !.pc = "epoch"]
          ELSE IF ~Exists(fs, args.resume_model, ModelFile) THEN Fail(@, "AssertionError")
          ELSE IF ~Exists(fs, args.resume_model, OptimizerFile) THEN Fail(@, "AssertionError")
          ELSE [@ EXCEPT !.pc = "epoch",
                         !.model = SetStateDict(@, Load(fs, args.resume_model, ModelFile))]]
    /\ UNCHANGED <<fs, nranks, vocabulary, nbatches, test_set, args, runs, log, effects, call, ev, recent>>

\* lines 285-298: the checkpoint to resume from
LoadResume(r) ==
    /\ proc[r].pc = "resume"
    /\ proc' = [proc EXCEPT ![r] =
          IF args.resume_model = None THEN [@ EXCEPT !.pc = "epoch"]
          ELSE IF ~Exists(fs, args.resume_model, ModelFile) THEN Fail(@, "AssertionError")
          ELSE IF ~Exists(fs, args.resume_model, OptimizerFile) THEN Fail(@, "AssertionError")
          ELSE OptimizerSetStateDict(
                  [@ EXCEPT !.pc = "epoch",
                            !.model = SetStateDict(@, Load(fs, args.resume_model, ModelFile))],
                  Load(fs, args.resume_model, OptimizerFile))]
    /\ UNCHANGED <<fs, nranks, vocabulary, nbatches, test_set, args, runs, log, effects, call, ev, recent>>

\* the epoch loop running while the iterator is <= num_epoch
EpochBeginInclusive(r) ==
    /\ proc[r].pc = "epoch"
    /\ LET p == proc[r]
       IN proc' = [proc EXCEPT ![r] =
             IF p.it <= args.num_epoch
             THEN [p EXCEPT !.pc = "batch", !.epoch = p.it + 1, !.it = p.it + 1, !.batch_id = 0,
                            !.epochs_run = Append(@, p.it + 1)]
             ELSE [p EXCEPT !.pc = "done"]]
    /\ UNCHANGED <<fs, nranks, vocabulary, nbatches, test_set, args, runs, log, effects, call, ev, recent>>

\* lines 300-303: for epoch in range(last_epoch, num_epoch): epoch += 1
EpochBegin(r) ==
    /\ proc[r].pc = "epoch"
    /\ LET p == proc[r]
       IN proc' = [proc EXCEPT ![r] =
             IF p.it < args.num_epoch
             THEN [p EXCEPT !.pc = "batch", !.epoch = p.it + 1, !.it = p.it + 1, !.batch_id = 0,
                            !.epochs_run = Append(@, p.it + 1)]
             ELSE [p EXCEPT !.pc = "done"]]
    /\ UNCHANGED <<fs, nranks, vocabulary, nbatches, test_set, args, runs, log, effects, call, ev, recent>>

\* lines 304-311: forward pass, loss and backward pass of one batch; the worker
\* then joins the gradient synchronisation of the optimizer step
Forward(r) ==
    /\ proc[r].pc = "batch"
    /\ proc' = [proc EXCEPT ![r] = [@ EXCEPT !.pc = "step", !.arrived = @ + 1]]
    /\ UNCHANGED <<fs, nranks, vocabulary, nbatches, test_set, args, runs, log, effects, call, ev, recent>>

\* line 316
LogsNow(batch_id, r) == batch_id % LogEvery = 0 /\ r = 0

\* the end-of-epoch block entered by every rank
IsPrimaryAnyRank(r) == r = r

\* the out-of-cycle save that does not exclude batch 0
SavesNowFromZero(batch_id, r) == batch_id % SaveEvery = 0 /\ r = 0

\* line 326
SavesNow(batch_id, r) == batch_id % SaveEvery = 0 /\ batch_id # 0 /\ r = 0

\* a trainer that hands neither the model nor the optimizer to fleet
UsesFleetNever(n) == FALSE

\* lines 262-265: in a job of n workers the optimizer and the model are wrapped
\* by fleet when n > 1
UsesFleet(n) == n > 1

\* the collective of the wrapped model and optimizer, as the specification
\* states it ("every worker must complete a synchronized step before any worker
\* proceeds to the next batch"): the step of a batch is taken once every worker
\* has contributed its gradients of that batch; an unwrapped optimizer waits for
\* no one
GradientsSynchronized(r) ==
    UsesFleet(nranks) => \A q \in Ranks : proc[q].arrived >= proc[r].arrived

\* lines 312-329: the synchronised optimizer step, the loss scalar and the
\* out-of-cycle save
OptimizerStep(r) ==
    /\ proc[r].pc = "step"
    /\ GradientsSynchronized(r)
    /\ LET p == proc[r]
           after == [p EXCEPT !.model = StepModel(@), !.accum = @ + 1, !.stepped = @ + 1]
           logs == LogsNow(p.batch_id, r)
           saves == SavesNow(p.batch_id, r)
           old_model_path == ModelPath(SaveModelPath, args.use_model, p.epoch - KeepBack)
       IN /\ log' = IF logs THEN Append(log, Scalar("Train loss", ZeroScalar, p.train_step, r))
                    ELSE log
          /\ fs' = IF saves
                   THEN SaveModel(fs, SaveModelPath, args.use_model, p.epoch, after.model,
                                  OptimizerStateDict(after))
                   ELSE fs
          /\ effects' = effects
                \cup (IF logs THEN {Effect("scalar", r)} ELSE {})
                \cup (IF saves THEN {Effect("save", r)} ELSE {})
                \cup (IF saves /\ old_model_path \in DOMAIN fs THEN {Effect("delete", r)} ELSE {})
          /\ proc' = [proc EXCEPT ![r] =
                [after EXCEPT !.train_step = IF logs THEN @ + 1 ELSE @,
                                !.saved = IF saves THEN Append(@, p.epoch) ELSE @,
                                !.batch_id = @ + 1,
                                !.pc = IF p.batch_id + 1 < nbatches THEN "batch" ELSE "eval"]]
          /\ recent' = IF saves THEN RecordSave(recent, args.use_model, p.epoch) ELSE recent
    /\ UNCHANGED <<nranks, vocabulary, nbatches, test_set, args, runs, call, ev>>

\* line 332
IsPrimary(r) == r = 0

\* the end of an epoch going straight to the checkpoint, with no evaluation
EpochEvalSkips(r) ==
    /\ proc[r].pc = "eval"
    /\ proc' = [proc EXCEPT ![r] = [@ EXCEPT !.pc = "save"]]
    /\ UNCHANGED <<fs, nranks, vocabulary, nbatches, test_set, args, runs, log, effects, call, ev, recent>>

\* lines 331-336: rank 0 calls __test on the held-out set, the others pass on
EpochEval(r) ==
    /\ proc[r].pc = "eval"
    /\ IF IsPrimary(r)
       THEN /\ ev' = [IdleEval EXCEPT !.pc = "loop", !.who = "__test"]
            /\ effects' = effects \cup {Effect("eval", r)}
            /\ proc' = [proc EXCEPT ![r] = [@ EXCEPT !.pc = "test"]]
       ELSE /\ proc' = [proc EXCEPT ![r] = [@ EXCEPT !.pc = "save"]]
            /\ UNCHANGED <<ev, effects>>
    /\ UNCHANGED <<fs, nranks, vocabulary, nbatches, test_set, args, runs, log, call, recent>>

\* __test, lines 356-374: one batch of the held-out set and the progress line
TestBatch(r) ==
    /\ proc[r].pc = "test"
    /\ ev.pc = "loop" /\ ev.who = "__test"
    /\ ev.batch_id < NumBatches(test_set)
    /\ LET batch == BatchOf(test_set, ev.batch_id)
           c == AppendBatchCer(ev.c, batch)
       IN IF DividesByZero(batch)
          THEN /\ ev' = [ev EXCEPT !.pc = "error"]
               /\ proc' = [proc EXCEPT ![r] = Fail(@, "ZeroDivisionError")]
          ELSE /\ ev' = [ev EXCEPT !.c = c, !.batch_id = @ + 1,
                                   !.printed = IF PrintsNow(ev.batch_id)
                                               THEN Append(@, [batch_id |-> ev.batch_id,
                                                               cer |-> MeanOf(c)])
                                               ELSE @]
               /\ UNCHANGED proc
    /\ UNCHANGED <<fs, nranks, vocabulary, nbatches, test_set, args, runs, log, effects, call, recent>>

\* __test, lines 375-377, and lines 337-345 of train(): the mean CER returned,
\* the 'Test cer' and 'Learning rate' scalars
TestReturn(r) ==
    /\ proc[r].pc = "test"
    /\ ev.pc = "loop" /\ ev.who = "__test"
    /\ ev.batch_id = NumBatches(test_set)
    /\ LET p == proc[r]
       IN IF ev.c = <<>>
          THEN /\ ev' = [ev EXCEPT !.pc = "error"]
               /\ proc' = [proc EXCEPT ![r] = Fail(@, "ZeroDivisionError")]
               /\ UNCHANGED <<log, effects>>
          ELSE /\ ev' = [ev EXCEPT !.pc = "returned", !.result = MeanOf(ev.c)]
               /\ log' = log \o <<Scalar("Test cer", MeanOf(ev.c), p.test_step, r),
                                  Scalar("Learning rate", p.scheduler.last_lr, p.epoch, r)>>
               /\ effects' = effects \cup {Effect("scalar", r)}
               /\ proc' = [proc EXCEPT ![r] = [@ EXCEPT !.pc = "save", !.test_step = @ + 1]]
    /\ UNCHANGED <<fs, nranks, vocabulary, nbatches, test_set, args, runs, call, recent>>

\* the end of an epoch with scheduler.step() inside the block of rank 0
EpochSaveStepsOnPrimary(r) ==
    /\ proc[r].pc = "save"
    /\ LET p == proc[r]
           old_model_path == ModelPath(SaveModelPath, args.use_model, p.epoch - KeepBack)
       IN /\ fs' = IF IsPrimary(r)
                   THEN SaveModel(fs, SaveModelPath, args.use_model, p.epoch, p.model,
                                  OptimizerStateDict(p))
                   ELSE fs
          /\ effects' = effects
                \cup (IF IsPrimary(r) THEN {Effect("save", r)} ELSE {})
                \cup (IF IsPrimary(r) /\ old_model_path \in DOMAIN fs
                      THEN {Effect("delete", r)} ELSE {})
          /\ proc' = [proc EXCEPT ![r] =
                [@ EXCEPT !.pc = "epoch",
                          !.scheduler = IF IsPrimary(r) THEN SchedulerStep(@) ELSE @,
                          !.saved = IF IsPrimary(r) THEN Append(@, p.epoch) ELSE @]]
          /\ recent' = IF IsPrimary(r) THEN RecordSave(recent, args.use_model, p.epoch)
                        ELSE recent
    /\ UNCHANGED <<nranks, vocabulary, nbatches, test_set, args, runs, log, call, ev>>

\* lines 347-350: the end-of-epoch checkpoint, then scheduler.step()
EpochSave(r) ==
    /\ proc[r].pc = "save"
    /\ LET p == proc[r]
           old_model_path == ModelPath(SaveModelPath, args.use_model, p.epoch - KeepBack)
       IN /\ fs' = IF IsPrimary(r)
                   THEN SaveModel(fs, SaveModelPath, args.use_model, p.epoch, p.model,
                                  OptimizerStateDict(p))
                   ELSE fs
          /\ effects' = effects
                \cup (IF IsPrimary(r) THEN {Effect("save", r)} ELSE {})
                \cup (IF IsPrimary(r) /\ old_model_path \in DOMAIN fs
                      THEN {Effect("delete", r)} ELSE {})
          /\ proc' = [proc EXCEPT ![r] =
                [@ EXCEPT !.pc = "epoch", !.scheduler = SchedulerStep(@),
                          !.saved = IF IsPrimary(r) THEN Append(@, p.epoch) ELSE @]]
          /\ recent' = IF IsPrimary(r) THEN RecordSave(recent, args.use_model, p.epoch)
                        ELSE recent
    /\ UNCHANGED <<nranks, vocabulary, nbatches, test_set, args, runs, log, call, ev>>

\* ---------------------------------------------------------------- evaluate()
AllStopped == (\A r \in Ranks : Stopped(proc[r])) /\ ev.pc # "loop"

\* the import of the beam-search backend failing without it
DecoderFailsWheneverAbsent(decoder, installed) == ~installed

\* lines 148-153: the backend is imported only for decoder == "ctc_beam_search";
\* ModuleNotFoundError becomes the fatal Exception
DecoderFails(decoder, installed) == decoder = CtcBeamSearch /\ ~installed

\* lines 127-170: the test data, the model of the variant, the parameters of the
\* checkpoint and the decoder; installed tells whether ctc_decoders can be imported
Evaluate(use_model, resume_model, decoder, installed) ==
    /\ runs < MaxCalls
    /\ AllStopped
    /\ runs' = runs + 1
    /\ LET c0 == [NoCall EXCEPT !.op = "evaluate", !.path = resume_model, !.use_model = use_model,
                                !.decoder = decoder, !.installed = installed]
       IN IF ~KnownModel(use_model)
          THEN call' = [c0 EXCEPT !.result = "UnknownModel"] /\ ev' = IdleEval
          ELSE IF ~Exists(fs, resume_model, ModelFile)
          THEN call' = [c0 EXCEPT !.result = "AssertionError"] /\ ev' = IdleEval
          ELSE IF DecoderFails(decoder, installed)
          THEN call' = [c0 EXCEPT !.result = "DecoderUnavailable"] /\ ev' = IdleEval
          ELSE call' = [c0 EXCEPT !.result = "running"]
               /\ ev' = [IdleEval EXCEPT !.pc = "loop", !.who = "evaluate"]
    /\ UNCHANGED <<fs, nranks, vocabulary, nbatches, test_set, args, proc, log, effects, recent>>

\* evaluate() with the default decoder = 'ctc_greedy' (line 110)
EvaluateLoad(use_model, resume_model) == Evaluate(use_model, resume_model, CtcGreedy, TRUE)

\* lines 171-180: one batch of the held-out set
EvaluateBatch ==
    /\ ev.pc = "loop" /\ ev.who = "evaluate"
    /\ ev.batch_id < NumBatches(test_set)
    /\ LET batch == BatchOf(test_set, ev.batch_id)
       IN IF call.decoder \notin {CtcGreedy, CtcBeamSearch}
          THEN /\ ev' = [ev EXCEPT !.pc = "error"]
               /\ call' = [call EXCEPT !.result = "NameError"]
          ELSE IF DividesByZero(batch)
          THEN /\ ev' = [ev EXCEPT !.pc = "error"]
               /\ call' = [call EXCEPT !.result = "ZeroDivisionError"]
          ELSE /\ ev' = [ev EXCEPT !.c = AppendBatchCer(@, batch), !.batch_id = @ + 1]
               /\ UNCHANGED call
    /\ UNCHANGED <<fs, nranks, vocabulary, nbatches, test_set, args, runs, proc, log, effects, recent>>

\* lines 181-182: the mean CER returned
EvaluateReturn ==
    /\ ev.pc = "loop" /\ ev.who = "evaluate"
    /\ ev.batch_id = NumBatches(test_set)
    /\ IF ev.c = <<>>
       THEN /\ ev' = [ev EXCEPT !.pc = "error"]
            /\ call' = [call EXCEPT !.result = "ZeroDivisionError"]
       ELSE /\ ev' = [ev EXCEPT !.pc = "returned", !.result = MeanOf(ev.c)]
            /\ call' = [call EXCEPT !.result = "ok", !.cer = MeanOf(ev.c)]
    /\ UNCHANGED <<fs, nranks, vocabulary, nbatches, test_set, args, runs, proc, log, effects, recent>>

\* ---------------------------------------------------------------- export()
\* lines 434-442: the infer directory, made when absent, and the serialized
\* model written into it next to whatever the directory holds
WriteInfer(f, use_model, state) ==
    LET infer_model_path == InferPath(SaveModelPath, use_model)
        old == IF infer_model_path \in DOMAIN f THEN f[infer_model_path] ELSE <<>>
        written == [n \in DOMAIN old \cup {InferFile} |-> IF n = InferFile THEN state ELSE old[n]]
    IN [d \in DOMAIN f \cup {infer_model_path} |->
          IF d = infer_model_path THEN written ELSE f[d]]

\* export() that creates the infer directory before it looks for the parameters
ExportOutcomeMkdirFirst(f, use_model, resume_model) ==
    LET infer_model_path == InferPath(SaveModelPath, use_model)
        made == [d \in DOMAIN f \cup {infer_model_path} |->
                   IF d \in DOMAIN f THEN f[d] ELSE [n \in {} |-> 0]]
    IN IF ~KnownModel(use_model) THEN [fs |-> f, result |-> "UnknownModel"]
       ELSE IF ~Exists(f, resume_model, ModelFile) THEN [fs |-> made, result |-> "AssertionError"]
       ELSE [fs |-> WriteInfer(f, use_model,
                        SetStateDict(ModelInit(use_model), Load(f, resume_model, ModelFile))),
             result |-> "ok"]

\* export() that only requires the checkpoint directory to exist
ExportOutcomeDirOnly(f, use_model, resume_model) ==
    IF ~KnownModel(use_model) THEN [fs |-> f, result |-> "UnknownModel"]
    ELSE IF DirOf(resume_model) \notin DOMAIN f THEN [fs |-> f, result |-> "AssertionError"]
    ELSE [fs |-> WriteInfer(f, use_model,
                     IF Exists(f, resume_model, ModelFile)
                     THEN SetStateDict(ModelInit(use_model), Load(f, resume_model, ModelFile))
                     ELSE ModelInit(use_model)),
          result |-> "ok"]

\* lines 399-443: the file system export(save_model_path, resume_model) leaves
\* and how the call ends
ExportOutcome(f, use_model, resume_model) ==
    IF ~KnownModel(use_model) THEN [fs |-> f, result |-> "UnknownModel"]
    ELSE IF ~Exists(f, resume_model, ModelFile) THEN [fs |-> f, result |-> "AssertionError"]
    ELSE [fs |-> WriteInfer(f, use_model,
                     SetStateDict(ModelInit(use_model), Load(f, resume_model, ModelFile))),
          result |-> "ok"]

Export(use_model, resume_model) ==
    /\ runs < MaxCalls
    /\ AllStopped
    /\ runs' = runs + 1
    /\ LET out == ExportOutcome(fs, use_model, resume_model)
       IN /\ fs' = out.fs
          /\ call' = [NoCall EXCEPT !.op = "export", !.path = resume_model,
                                    !.use_model = use_model, !.result = out.result]
    /\ ev' = IdleEval
    /\ UNCHANGED <<nranks, vocabulary, nbatches, test_set, args, proc, log, effects, recent>>

\* ---------------------------------------------------------------- create_data()
\* lines 57-100: create_data(count_threshold) over a data set whose characters
\* count as items, whose train manifest gives batches batches and whose test
\* manifest gives the held-out set tests; the manifests, the vocabulary file and
\* the mean and standard deviation file are written anew
CreateDataWithin(items, count_threshold, batches, tests, calls) ==
    /\ runs < calls
    /\ AllStopped
    /\ runs' = runs + 1
    /\ vocabulary' = Vocabulary(items, count_threshold)
    /\ nbatches' = batches
    /\ test_set' = tests
    /\ call' = [NoCall EXCEPT !.op = "create_data", !.use_model = args.use_model,
                              !.result = "ok"]
    /\ ev' = IdleEval
    /\ UNCHANGED <<fs, nranks, args, proc, log, effects, recent>>

CreateData(items, count_threshold, batches, tests) ==
    CreateDataWithin(items, count_threshold, batches, tests, MaxCalls)

\* ---------------------------------------------------------------- the trainer's specification
\* the distributed pretrained weights: parameters only, no optimizer state
PretrainedWeights ==
    [n \in {"conv", "rnn", "lm"} |-> [shape |-> IF n = "rnn" THEN <<3, 8>> ELSE <<8>>, value |-> 50]]

InitialFs == [d \in {DirOf(PretrainedPath)} |-> [n \in {ModelFile} |-> PretrainedWeights]]

TestSetOne == [samples |-> <<[out |-> <<"a">>, label |-> <<"a", "b">>]>>, batch_size |-> 1]

\* the paths a caller may hand to train(), evaluate() or export()
PathChoices(use_model) ==
    DOMAIN fs \cup {PretrainedPath, SaveModelPath, ModelPath(SaveModelPath, use_model, 1)}

\* the vocabulary file of a data set counting a three times and b twice
InitialVocabulary ==
    Vocabulary(<<[char |-> "a", count |-> 3], [char |-> "b", count |-> 2]>>, DefaultCountThreshold)

InitWith(workers, epochs, tests, files) ==
    /\ fs \in files
    /\ nranks = workers
    /\ vocabulary = InitialVocabulary
    /\ nbatches = MaxBatches
    /\ test_set \in tests
    /\ args \in {[NoArgs EXCEPT !.num_epoch = e] : e \in 1..epochs}
    /\ runs = 0
    /\ proc = [r \in Ranks |-> IdleProc]
    /\ log = <<>>
    /\ effects = {}
    /\ call = NoCall
    /\ ev = IdleEval
    /\ recent = [v \in {DeepSpeech2, DeepSpeech2Light} |-> <<>>]

\* one worker, any configured epoch count
Init == InitWith(1, MaxEpoch, {TestSetOne}, {InitialFs})

\* train(num_epoch, resume_model) of a trainer of a known variant
TrainCall ==
    \E use_model \in {DeepSpeech2, DeepSpeech2Light} :
        \E resume_model \in {None} \cup PathChoices(use_model) :
            StartTrain([args EXCEPT !.use_model = use_model, !.resume_model = resume_model])

\* train() of a trainer whose use_model names no model
TrainCallUnknown == StartTrain([args EXCEPT !.use_model = UnknownModel, !.resume_model = None])

EvaluateCall ==
    \E use_model \in {DeepSpeech2, UnknownModel} :
        \E resume_model \in PathChoices(use_model) :
            \E decoder \in {CtcGreedy, CtcBeamSearch, OtherDecoder} :
                \E installed \in BOOLEAN : Evaluate(use_model, resume_model, decoder, installed)

ExportCall ==
    \E use_model \in {DeepSpeech2, UnknownModel} :
        \E resume_model \in PathChoices(use_model) : Export(use_model, resume_model)

\* the held-out set of a data set written with the characters of vocabulary v: one
\* pair whose label is the first and the last character and whose decoding is
\* the first
TestSetOver(v) ==
    [samples |-> <<[out |-> <<v[2].char>>, label |-> <<v[2].char, v[Len(v)].char>>]>>,
     batch_size |-> 1]

\* create_data() over a data set counting a three times and b once, with the
\* default threshold or with none
CreateDataCall ==
    \E count_threshold \in {0, DefaultCountThreshold} :
        \E batches \in 1..MaxBatches :
            LET items == <<[char |-> "a", count |-> 3], [char |-> "b", count |-> 1]>>
            IN CreateData(items, count_threshold, batches,
                          TestSetOver(Vocabulary(items, count_threshold)))

Next ==
    \/ TrainCall
    \/ TrainCallUnknown
    \/ \E r \in Ranks : Setup(r)
    \/ \E r \in Ranks : LoadData(r)
    \/ \E r \in Ranks : GetModel(r)
    \/ \E r \in Ranks : LoadPretrained(r)
    \/ \E r \in Ranks : LoadResume(r)
    \/ \E r \in Ranks : EpochBegin(r)
    \/ \E r \in Ranks : Forward(r)
    \/ \E r \in Ranks : OptimizerStep(r)
    \/ \E r \in Ranks : EpochEval(r)
    \/ \E r \in Ranks : TestBatch(r)
    \/ \E r \in Ranks : TestReturn(r)
    \/ \E r \in Ranks : EpochSave(r)
    \/ EvaluateCall
    \/ EvaluateBatch
    \/ EvaluateReturn
    \/ ExportCall
    \/ CreateDataCall

Spec == Init /\ [][Next]_vars

\* ---------------------------------------------------------------- multi-worker training
InitDist == InitWith(MaxWorkers, MaxDistEpoch, {TestSetOne}, {InitialFs})

DistSpec == InitDist /\ [][Next]_vars

\* ---------------------------------------------------------------- evaluation over many held-out sets
\* decoded pairs: a deletion against a one-token label, a deletion against a
\* two-token label, an exact match, and a pair whose label is empty
SampleKinds ==
    { [out |-> <<>>, label |-> <<"a">>],
      [out |-> <<"a">>, label |-> <<"a", "b">>],
      [out |-> <<"a", "b">>, label |-> <<"a", "b">>],
      [out |-> <<"a">>, label |-> <<>>] }

SeqsUpTo(S, n) == UNION {[1..k -> S] : k \in 0..n}

ShortTestSets ==
    {[samples |-> ss, batch_size |-> b] : ss \in SeqsUpTo(SampleKinds, MaxSamples),
                                          b \in 1..MaxBatchSize}

\* two exact matches of label lengths 3 and 5 in one batch
ExactTestSet ==
    [samples |-> <<[out |-> <<"a", "b", "a">>, label |-> <<"a", "b", "a">>],
                   [out |-> <<"a", "b", "a", "b", "a">>, label |-> <<"a", "b", "a", "b", "a">>]>>,
     batch_size |-> 2]

Cycle(pattern, n) == [i \in 1..n |-> pattern[((i - 1) % Len(pattern)) + 1]]

\* held-out sets long enough for the progress line of batch 100
LongTestSets ==
    {[samples |-> Cycle(pat, LogEvery + n), batch_size |-> 1] :
        pat \in {<<[out |-> <<>>, label |-> <<"a">>], [out |-> <<"a">>, label |-> <<"a", "b">>]>>,
                 <<[out |-> <<"a">>, label |-> <<"a", "b">>],
                   [out |-> <<"a", "b">>, label |-> <<"a", "b">>],
                   [out |-> <<"a", "b">>, label |-> <<"a", "b">>]>>},
        n \in 1..MaxBatchSize}

InitEval == InitWith(1, 1, ShortTestSets \cup {ExactTestSet} \cup LongTestSets, {InitialFs})

\* train() of one epoch, whose end runs __test
TrainCallFresh == StartTrain([args EXCEPT !.use_model = DeepSpeech2, !.resume_model = None])

\* evaluate() on the pretrained parameters
EvaluateCallPretrained == EvaluateLoad(DeepSpeech2, PretrainedPath)

NextEval ==
    \/ TrainCallFresh
    \/ \E r \in Ranks : Setup(r)
    \/ \E r \in Ranks : LoadData(r)
    \/ \E r \in Ranks : GetModel(r)
    \/ \E r \in Ranks : LoadPretrained(r)
    \/ \E r \in Ranks : LoadResume(r)
    \/ \E r \in Ranks : EpochBegin(r)
    \/ \E r \in Ranks : Forward(r)
    \/ \E r \in Ranks : OptimizerStep(r)
    \/ \E r \in Ranks : EpochEval(r)
    \/ \E r \in Ranks : TestBatch(r)
    \/ \E r \in Ranks : TestReturn(r)
    \/ \E r \in Ranks : EpochSave(r)
    \/ EvaluateCallPretrained
    \/ EvaluateBatch
    \/ EvaluateReturn

EvalSpec == InitEval /\ [][NextEval]_vars

RECURSIVE DistanceInRange(_, _, _, _)
DistanceInRange(samples, L, lo, hi) ==
    IF lo > hi THEN 0
    ELSE IF lo = hi
    THEN (IF Len(samples[lo].label) = L THEN EditDistance(samples[lo].out, samples[lo].label)
          ELSE 0)
    ELSE LET mid == (lo + hi) \div 2
         IN DistanceInRange(samples, L, lo, mid) + DistanceInRange(samples, L, mid + 1, hi)

\* the summed edit distance of the pairs whose label has length L
TotalDistance(samples, L) == DistanceInRange(samples, L, 1, Len(samples))

RECURSIVE Product(_)
Product(n) == IF n <= 1 THEN 1 ELSE n * Product(n - 1)

RECURSIVE WeightedSum(_, _)
\* the sum over L = 1..n of TotalDistance(samples, L) * (MaxLabelLen! / L)
WeightedSum(samples, n) ==
    IF n = 0 THEN 0
    ELSE TotalDistance(samples, n) * (Product(MaxLabelLen) \div n) + WeightedSum(samples, n - 1)

\* the mean over the pairs of editDistance(out, label) / len(label)
MeanPerSampleCer(samples) ==
    Frac(WeightedSum(samples, MaxLabelLen), Product(MaxLabelLen) * Len(samples))

RECURSIVE LabelLenInRange(_, _, _)
LabelLenInRange(samples, lo, hi) ==
    IF lo > hi THEN 0
    ELSE IF lo = hi THEN Len(samples[lo].label)
    ELSE LET mid == (lo + hi) \div 2
         IN LabelLenInRange(samples, lo, mid) + LabelLenInRange(samples, mid + 1, hi)

TotalLabelLen(samples) == LabelLenInRange(samples, 1, Len(samples))

RECURSIVE EditDistanceInRange(_, _, _)
EditDistanceInRange(samples, lo, hi) ==
    IF lo > hi THEN 0
    ELSE IF lo = hi THEN EditDistance(samples[lo].out, samples[lo].label)
    ELSE LET mid == (lo + hi) \div 2
         IN EditDistanceInRange(samples, lo, mid) + EditDistanceInRange(samples, mid + 1, hi)

\* the summed edit distance of all pairs
TotalEditDistance(samples) == EditDistanceInRange(samples, 1, Len(samples))

\* the total edit distance over the total label length
AggregateCer(samples) == Frac(TotalEditDistance(samples), TotalLabelLen(samples))

SeenUpTo(batch_id) ==
    SubSeq(test_set.samples, 1, Min2((batch_id + 1) * test_set.batch_size, Len(test_set.samples)))

\* C10: the CER __test and evaluate() return is the mean over all pairs of
\* editDistance / len(label); every progress line of __test prints that mean over
\* the pairs seen so far; exact matches everywhere give 0.
C10_CerIsMeanOfPerSampleRates ==
    /\ ev.pc = "returned" =>
          /\ ev.result = MeanPerSampleCer(test_set.samples)
          /\ (\A i \in 1..Len(test_set.samples) :
                 test_set.samples[i].out = test_set.samples[i].label)
                => ev.result = [num |-> 0, den |-> 1]
    /\ (call.op = "evaluate" /\ call.result = "ok") => call.cer = MeanPerSampleCer(test_set.samples)
    /\ \A k \in 1..Len(ev.printed) :
          /\ ev.printed[k].batch_id = (k - 1) * LogEvery
          /\ ev.printed[k].cer = MeanPerSampleCer(SeenUpTo(ev.printed[k].batch_id))
    /\ (ev.who = "__test" /\ ev.pc \in {"loop", "returned"}) =>
          Len(ev.printed) = (ev.batch_id + LogEvery - 1) \div LogEvery

C10_Witness ==
    /\ ev.pc = "returned" /\ ev.who = "__test"
    /\ Len(ev.printed) = 2
    /\ ev.result # AggregateCer(test_set.samples)
    /\ ev.result = MeanPerSampleCer(test_set.samples)

\* ---------------------------------------------------------------- pretrained weights of any content
ParamShapes == {<<8>>, <<3, 8>>, <<3, 4>>, <<Len(InitialVocabulary)>>}

\* every pretrained file naming some of conv, rnn, fc and lm, in any of the shapes
PretrainedFiles ==
    UNION { [names -> [shape : ParamShapes, value : {50}]] : names \in SUBSET {"conv", "rnn", "fc", "lm"} }

PretrainedFileSystems ==
    {[d \in {DirOf(PretrainedPath)} |-> [n \in {ModelFile} |-> w]] : w \in PretrainedFiles}
        \cup {[d \in {} |-> <<>>]}

InitPre == InitWith(1, 1, {TestSetOne}, PretrainedFileSystems)

\* train(pretrained_model = ...) of one epoch
TrainCallPretrained ==
    \E use_model \in {DeepSpeech2, DeepSpeech2Light} :
        StartTrain([args EXCEPT !.use_model = use_model, !.resume_model = None,
                                !.pretrained_model = PretrainedPath])

NextPre ==
    \/ TrainCallPretrained
    \/ \E r \in Ranks : Setup(r)
    \/ \E r \in Ranks : LoadData(r)
    \/ \E r \in Ranks : GetModel(r)
    \/ \E r \in Ranks : LoadPretrained(r)
    \/ \E r \in Ranks : LoadResume(r)
    \/ \E r \in Ranks : EpochBegin(r)
    \/ \E r \in Ranks : Forward(r)
    \/ \E r \in Ranks : OptimizerStep(r)
    \/ \E r \in Ranks : EpochEval(r)
    \/ \E r \in Ranks : TestBatch(r)
    \/ \E r \in Ranks : TestReturn(r)
    \/ \E r \in Ranks : EpochSave(r)

PreSpec == InitPre /\ [][NextPre]_vars

\* C9: loading pretrained weights never fails on a shape mismatch or a missing
\* parameter: a parameter named in the file with an equal shape takes the file's
\* value, every other parameter keeps its initial value.
C9_PretrainedLoadSkipsMismatches ==
    \A r \in Ranks :
        (args.pretrained_model # None /\ Exists(fs, args.pretrained_model, ModelFile)) =>
            /\ proc[r].pc # "error"
            /\ proc[r].pc = "resume" =>
                  LET file == Load(fs, args.pretrained_model, ModelFile)
                      init == ModelInit(args.use_model)
                  IN /\ DOMAIN proc[r].model = DOMAIN init
                     /\ \A n \in DOMAIN init :
                           /\ proc[r].model[n].shape = init[n].shape
                           /\ proc[r].model[n].value =
                                 IF n \in DOMAIN file /\ file[n].shape = init[n].shape
                                 THEN file[n].value ELSE init[n].value

C9_Witness ==
    \E r \in Ranks :
        /\ proc[r].pc = "resume"
        /\ args.pretrained_model # None /\ Exists(fs, args.pretrained_model, ModelFile)
        /\ LET file == Load(fs, args.pretrained_model, ModelFile)
               m == proc[r].model
           IN /\ \E n \in DOMAIN m : n \in DOMAIN file /\ file[n].shape # m[n].shape /\ m[n].value = 0
              /\ \E n \in DOMAIN m : n \in DOMAIN file /\ m[n].value = 50
              /\ \E n \in DOMAIN m : n \notin DOMAIN file /\ m[n].value = 0

\* ---------------------------------------------------------------- properties of the trainer
Variants == {DeepSpeech2, DeepSpeech2Light}

RECURSIVE SchedulerAfter(_, _)
SchedulerAfter(s, k) == IF k <= 0 THEN s ELSE SchedulerAfter(SchedulerStep(s), k - 1)

\* the rate an uninterrupted run trains epoch e with: the scheduler built with
\* last_epoch = -1 and stepped once at the end of each of the e - 1 epochs before
UninterruptedLr(e) == SchedulerAfter(ExponentialDecay(LearningRate, 0 - 1), e - 1).last_lr

Training(p) == p.pc \in {"batch", "step"}

\* C1: a run resumed from the checkpoint of epoch N trains every batch of the
\* following epochs with the learning rate the uninterrupted run uses there.
C1_ResumedLrMatchesUninterrupted ==
    \A r \in Ranks :
        (args.resume_model # None /\ Training(proc[r]))
            => proc[r].scheduler.last_lr = UninterruptedLr(proc[r].epoch)

FirstFreshRun == runs = 1 /\ proc[0].pc # "idle" /\ args.resume_model = None

\* C2: from an empty checkpoint root, once save_model has been called for the
\* epochs 1..N in order, the directories present are exactly those of the epochs
\* max(1, N-2)..N.
C2_SequentialSavesKeepLastThree ==
    FirstFreshRun =>
        LET N == Len(proc[0].saved)
        IN /\ \A i \in 1..N : proc[0].saved[i] = i
           /\ CheckpointEpochs(fs, args.use_model) = {e \in 1..N : e >= N - 2}

C2_Witness ==
    /\ FirstFreshRun
    /\ proc[0].saved = <<1, 2, 3, 4, 5, 6>>
    /\ CheckpointEpochs(fs, args.use_model) = {4, 5, 6}

\* C3: whatever train() runs were made over the same root and variant, the
\* checkpoint directories present are the (at most 3) most recently saved epochs.
C3_AtMostThreeMostRecent ==
    \A v \in Variants :
        /\ Cardinality(CheckpointEpochs(fs, v)) <= KeepBack
        /\ CheckpointEpochs(fs, v) = {recent[v][i] : i \in 1..Len(recent[v])}

\* C4: a run resumed from epoch N with epoch count E executes the epochs
\* N+1, ..., E once each in increasing order and saves none at or below N; with
\* N >= E it runs no epoch and saves nothing; with no resume path N is 0.
C4_RunsExactlyRemainingEpochs ==
    \A r \in Ranks :
        LET p == proc[r]
            E == args.num_epoch
        IN IF args.resume_model # None /\ ~HasInt(args.resume_model)
           THEN p.epochs_run = <<>> /\ p.saved = <<>>
           ELSE LET N == LastEpochOf(args.resume_model)
                IN /\ \A i \in 1..Len(p.epochs_run) :
                         p.epochs_run[i] = N + i /\ p.epochs_run[i] <= E
                   /\ \A i \in 1..Len(p.saved) : p.saved[i] > N /\ p.saved[i] <= E
                   /\ p.pc = "done" => Len(p.epochs_run) = (IF E > N THEN E - N ELSE 0)
                   /\ (p.pc = "done" /\ r = 0) =>
                         {p.saved[i] : i \in 1..Len(p.saved)} = (N + 1)..E

C4_Witness ==
    \E r \in Ranks :
        /\ proc[r].pc = "done"
        /\ args.resume_model # None
        /\ Len(proc[r].epochs_run) >= 2
        /\ proc[r].epochs_run[1] = LastEpochOf(args.resume_model) + 1
        /\ proc[r].epochs_run[1] >= 2

\* C6: with use_model naming no model, train() raises the configuration error
\* before any dataset or data loader is constructed.
C6_UnknownModelBeforeData ==
    \A r \in Ranks : proc[r].err = "UnknownModel" => ~proc[r].data_loaded

ResumeLacksBlob ==
    /\ args.resume_model # None
    /\ ~(Exists(fs, args.resume_model, ModelFile) /\ Exists(fs, args.resume_model, OptimizerFile))

LeavesResume(r) == proc[r].pc = "resume" /\ proc'[r].pc # "resume"

ExportStep == runs' = runs + 1 /\ call'.op = "export"

EvaluateStep == runs' = runs + 1 /\ call'.op = "evaluate"

\* C7: a resume path lacking either blob makes train() fail before any batch is
\* trained and before any checkpoint is written or deleted; a path lacking the
\* parameters makes export() fail before the infer directory or any artifact exists.
C7_MissingBlobFailsBeforeWork ==
    [][ /\ \A r \in Ranks :
             (LeavesResume(r) /\ ResumeLacksBlob) =>
                 /\ proc'[r].pc = "error"
                 /\ proc'[r].stepped = 0 /\ proc'[r].epochs_run = <<>> /\ proc'[r].saved = <<>>
                 /\ fs' = fs
        /\ \A r \in Ranks :
             (proc[r].pc = "error" /\ proc[r].err = "AssertionError") =>
                 /\ proc[r].stepped = 0 /\ proc[r].saved = <<>>
                 /\ runs' = runs => (proc'[r] = proc[r] /\ fs' = fs)
        /\ (ExportStep /\ ~Exists(fs, call'.path, ModelFile)) =>
             call'.result # "ok" /\ fs' = fs
      ]_vars

C7_Witness ==
    /\ \E r \in Ranks : proc[r].err = "AssertionError"
    /\ call.op = "export" /\ call.result = "AssertionError"

\* C8 as stated: resume, evaluate() and export() all fail unless both blobs of
\* the directory they load are present.
C8_EveryLoadNeedsBothBlobs ==
    [][ /\ \A r \in Ranks : (LeavesResume(r) /\ ResumeLacksBlob) => proc'[r].pc = "error"
        /\ (ExportStep \/ EvaluateStep) =>
             (call'.result \in {"ok", "running"} =>
                 /\ Exists(fs, call'.path, ModelFile)
                 /\ Exists(fs, call'.path, OptimizerFile))
      ]_vars

\* C8 amended: resume fails unless both blobs are present; evaluate() and
\* export() of a known variant fail on the checkpoint exactly when the parameters
\* are absent, whatever the optimizer blob, and load nothing without them.
C8_LoadsNeedTheirBlobs ==
    [][ /\ \A r \in Ranks : (LeavesResume(r) /\ ResumeLacksBlob) => proc'[r].pc = "error"
        /\ (ExportStep \/ EvaluateStep) =>
             /\ KnownModel(call'.use_model) =>
                   (call'.result = "AssertionError" <=> ~Exists(fs, call'.path, ModelFile))
             /\ call'.result \in {"ok", "running"} =>
                   (KnownModel(call'.use_model) /\ Exists(fs, call'.path, ModelFile))
      ]_vars

C8_Witness ==
    /\ call.op = "export" /\ call.result = "ok"
    /\ ~Exists(fs, call.path, OptimizerFile)
    /\ \E r \in Ranks : proc[r].err = "AssertionError" /\ args.resume_model = call.path

\* C5: every checkpoint write, checkpoint deletion, scalar and evaluation of a
\* multi-worker run is made by rank 0.
C5_OnlyRankZeroSideEffects ==
    /\ \A e \in effects : e.rank = 0
    /\ \A i \in 1..Len(log) : log[i].rank = 0
    /\ \A r \in Ranks : r # 0 => proc[r].saved = <<>> /\ proc[r].train_step = 0 /\ proc[r].test_step = 0

C5_Witness ==
    /\ nranks > 1
    /\ \A r \in Ranks : proc[r].pc = "done"
    /\ {e.kind : e \in effects} = {"save", "delete", "scalar", "eval"}

\* ---------------------------------------------------------------- further properties of the evaluation loops
HasEmptyLabel(ts) == \E i \in 1..Len(ts.samples) : ts.samples[i].label = <<>>

\* C11: over a held-out set holding a pair with an empty label, neither __test nor
\* evaluate() fails with a division by zero.
C11_NoDivisionByZero ==
    HasEmptyLabel(test_set) =>
        /\ call.result # "ZeroDivisionError"
        /\ \A r \in Ranks : proc[r].err # "ZeroDivisionError"

\* ---------------------------------------------------------------- epochs long enough for the out-of-cycle save
\* one train() call of a fresh trainer whose train_loader holds more than
\* SaveEvery batches
InitLong ==
    /\ fs = InitialFs
    /\ nranks \in 1..MaxWorkers
    /\ vocabulary = InitialVocabulary
    /\ nbatches \in {SaveEvery + 1, SaveEvery + MaxLongTail}
    /\ test_set = TestSetOne
    /\ args = [NoArgs EXCEPT !.num_epoch = MaxLongEpoch]
    /\ runs = 0
    /\ proc = [r \in Ranks |-> IdleProc]
    /\ log = <<>>
    /\ effects = {}
    /\ call = NoCall
    /\ ev = IdleEval
    /\ recent = [v \in {DeepSpeech2, DeepSpeech2Light} |-> <<>>]

TrainCallOnce ==
    /\ runs = 0
    /\ StartTrain([args EXCEPT !.use_model = DeepSpeech2, !.resume_model = None])

NextLong ==
    \/ TrainCallOnce
    \/ \E r \in Ranks : Setup(r)
    \/ \E r \in Ranks : LoadData(r)
    \/ \E r \in Ranks : GetModel(r)
    \/ \E r \in Ranks : LoadPretrained(r)
    \/ \E r \in Ranks : LoadResume(r)
    \/ \E r \in Ranks : EpochBegin(r)
    \/ \E r \in Ranks : Forward(r)
    \/ \E r \in Ranks : OptimizerStep(r)
    \/ \E r \in Ranks : EpochEval(r)
    \/ \E r \in Ranks : TestBatch(r)
    \/ \E r \in Ranks : TestReturn(r)
    \/ \E r \in Ranks : EpochSave(r)

LongSpec == InitLong /\ [][NextLong]_vars

\* worker r takes the optimizer step of a batch in this step
StepsBatch(r) == runs' = runs /\ proc'[r].stepped = proc[r].stepped + 1

\* C12: save_model under the key of the running epoch is called by rank 0 right
\* after the optimizer step of every batch whose index is a positive multiple of
\* 10000, and after the step of no other batch and on no other rank.
C12_OutOfCycleSaveEvery10000 ==
    [][ \A r \in Ranks :
          StepsBatch(r) =>
              LET k == proc[r].batch_id
                  e == proc[r].epoch
                  model_path == ModelPath(SaveModelPath, args.use_model, e)
              IN IF r = 0 /\ k # 0 /\ k % SaveEvery = 0
                 THEN /\ proc'[r].saved = Append(proc[r].saved, e)
                      /\ model_path \in DOMAIN fs'
                      /\ fs'[model_path][ModelFile] = proc'[r].model
                      /\ fs'[model_path][OptimizerFile] = OptimizerStateDict(proc'[r])
                 ELSE proc'[r].saved = proc[r].saved /\ fs' = fs
      ]_vars

C12_Witness ==
    /\ nbatches > SaveEvery + 1
    /\ proc[0].pc = "batch" /\ proc[0].batch_id = SaveEvery + 1
    /\ proc[0].saved = <<proc[0].epoch>>
    /\ ModelPath(SaveModelPath, args.use_model, proc[0].epoch) \in DOMAIN fs

\* ---------------------------------------------------------------- properties of the decoder choice
\* C13: evaluate() fails for want of the beam-search backend exactly when the
\* decoder asked for is 'ctc_beam_search', and then before any batch is decoded;
\* with 'ctc_greedy' the absent backend makes no difference.
C13_BackendNeededOnlyForBeamSearch ==
    call.op = "evaluate" =>
        LET loads == KnownModel(call.use_model) /\ Exists(fs, call.path, ModelFile)
        IN /\ call.result = "DecoderUnavailable" =>
                 /\ call.decoder = CtcBeamSearch /\ ~call.installed
                 /\ ev = IdleEval
           /\ (loads /\ call.decoder = CtcBeamSearch /\ ~call.installed) =>
                 call.result = "DecoderUnavailable"
           /\ (loads /\ call.decoder = CtcGreedy) => call.result \in {"running", "ok"}

C13_Witness ==
    /\ call.op = "evaluate" /\ call.result = "DecoderUnavailable"
    /\ call.decoder = CtcBeamSearch /\ ~call.installed
    /\ ev = IdleEval

\* ---------------------------------------------------------------- properties of the epoch cycle
\* C14: on rank 0 every epoch runs all its batches, then the evaluation, then the
\* end-of-epoch save, then one scheduler step; the scheduler does not move
\* between two batches, and the checkpoint of epoch e exists before a batch of
\* epoch e + 1 is trained.
C14_EpochPhasesInOrder ==
    [][ runs' = runs =>
          LET p == proc[0]
              q == proc'[0]
          IN /\ p.pc \in {"batch", "step", "eval", "test"} => q.scheduler = p.scheduler
             /\ (p.pc = "batch" /\ q.pc # "batch") => q.pc = "step" /\ q.epoch = p.epoch
             /\ (p.pc = "step" /\ q.pc # "step") =>
                   /\ q.epoch = p.epoch
                   /\ q.batch_id = p.batch_id + 1
                   /\ q.pc = "batch" => q.batch_id < nbatches
                   /\ q.pc # "batch" => q.pc = "eval" /\ q.batch_id = nbatches
             /\ (p.pc = "eval" /\ q.pc # "eval") => q.pc = "test" /\ ev'.who = "__test"
             /\ (p.pc = "test" /\ q.pc # "test") =>
                   /\ q.pc \in {"save", "error"}
                   /\ q.pc = "save" => q.test_step = p.test_step + 1 /\ q.saved = p.saved
             /\ (p.pc = "save" /\ q.pc # "save") =>
                   /\ q.pc = "epoch"
                   /\ q.saved = Append(p.saved, p.epoch)
                   /\ ModelPath(SaveModelPath, args.use_model, p.epoch) \in DOMAIN fs'
                   /\ q.scheduler.last_epoch = p.scheduler.last_epoch + 1
             /\ (p.pc = "epoch" /\ q.pc # "epoch") =>
                   /\ q.pc \in {"batch", "done"}
                   /\ q.scheduler = p.scheduler
                   /\ (q.pc = "batch" /\ p.epochs_run # <<>>) =>
                         /\ q.epoch = p.epoch + 1 /\ q.batch_id = 0
                         /\ p.saved # <<>> /\ p.saved[Len(p.saved)] = p.epoch
                         /\ ModelPath(SaveModelPath, args.use_model, p.epoch) \in DOMAIN fs
      ]_vars

C14_Witness ==
    /\ proc[0].pc = "batch"
    /\ Len(proc[0].epochs_run) >= 2
    /\ proc[0].test_step >= 1
    /\ proc[0].saved # <<>> /\ proc[0].saved[Len(proc[0].saved)] = proc[0].epoch - 1

\* ---------------------------------------------------------------- properties of the synchronised step
\* C15: with several workers, no worker takes the optimizer step of a batch before
\* every worker has taken the step of the batch before it, also when rank 0 alone
\* evaluates and saves at the end of an epoch: until rank 0 is back from them no
\* other rank has taken a step of the next epoch.
C15_StepsInLockstep ==
    nranks > 1 =>
        /\ \A r \in Ranks : \A q \in Ranks : proc[r].stepped <= proc[q].stepped + 1
        /\ proc[0].pc \in {"eval", "test", "save"} =>
              \A q \in Ranks : proc[q].stepped <= proc[0].stepped

C15_Witness ==
    /\ nranks > 1
    /\ proc[0].pc \in {"test", "save"}
    /\ \E r \in Ranks :
          /\ r # 0
          /\ proc[r].pc = "step"
          /\ proc[r].epoch = proc[0].epoch + 1
          /\ proc[r].stepped = proc[0].stepped

\* ---------------------------------------------------------------- properties of the checkpoint blobs
\* the resume path names a checkpoint directory of the trainer's own variant
ResumesOwnCheckpoint ==
    /\ args.resume_model # None
    /\ HasInt(args.resume_model)
    /\ DirOf(args.resume_model) =
          ModelPath(SaveModelPath, args.use_model, LastEpochOf(args.resume_model))

\* blob ck holds every parameter of model m with the shape it has in m: the
\* model was built over a vocabulary of the size the checkpoint was saved with
CoversModel(ck, m) == \A n \in DOMAIN m : n \in DOMAIN ck /\ ck[n].shape = m[n].shape

\* worker r returns from save_model in this step
Saves(r) == runs' = runs /\ Len(proc'[r].saved) = Len(proc[r].saved) + 1

\* the locals of worker r at the moment save_model is called in this step: the
\* end-of-epoch save reads them before scheduler.step(), the out-of-cycle save
\* right after the optimizer step
AtSave(r) == IF proc[r].pc = "save" THEN proc[r] ELSE proc'[r]

\* train(), create_data() and train() again on one trainer: a run, the data set
\* and its vocabulary file written anew, and a run resumed from a checkpoint
InitRound == InitWith(1, MaxBothEpoch, {TestSetOne}, {InitialFs})

TrainCallRound ==
    \E use_model \in {DeepSpeech2, DeepSpeech2Light} :
        \E resume_model \in {None} \cup PathChoices(use_model) :
            StartTrainWithin([args EXCEPT !.use_model = use_model,
                                          !.resume_model = resume_model], MaxCalls + 1)

CreateDataRound ==
    \E count_threshold \in {0, DefaultCountThreshold} :
        \E batches \in 1..MaxBatches :
            LET items == <<[char |-> "a", count |-> 3], [char |-> "b", count |-> 1]>>
            IN CreateDataWithin(items, count_threshold, batches,
                                TestSetOver(Vocabulary(items, count_threshold)), MaxCalls + 1)

NextRound ==
    \/ TrainCallRound
    \/ CreateDataRound
    \/ \E r \in Ranks : Setup(r)
    \/ \E r \in Ranks : LoadData(r)
    \/ \E r \in Ranks : GetModel(r)
    \/ \E r \in Ranks : LoadPretrained(r)
    \/ \E r \in Ranks : LoadResume(r)
    \/ \E r \in Ranks : EpochBegin(r)
    \/ \E r \in Ranks : Forward(r)
    \/ \E r \in Ranks : OptimizerStep(r)
    \/ \E r \in Ranks : EpochEval(r)
    \/ \E r \in Ranks : TestBatch(r)
    \/ \E r \in Ranks : TestReturn(r)
    \/ \E r \in Ranks : EpochSave(r)

RoundSpec == InitRound /\ [][NextRound]_vars

\* worker r returns from save_model in this step with epoch_e holding its model
\* state and its optimizer state as they are at the call
SavesItsState(r) ==
    LET e == proc'[r].saved[Len(proc'[r].saved)]
        model_path == ModelPath(SaveModelPath, args.use_model, e)
    IN /\ e = proc[r].epoch
       /\ model_path \in DOMAIN fs'
       /\ fs'[model_path][ModelFile] = AtSave(r).model
       /\ fs'[model_path][OptimizerFile] = OptimizerStateDict(AtSave(r))

\* worker r passes the resume load of a checkpoint in this step
Resumes(r) == LeavesResume(r) /\ args.resume_model # None /\ proc'[r].pc # "error"

Series == {"Train loss", "Test cer", "Learning rate"}

\* C17: within a train() run the points of each scalar series carry strictly
\* increasing indices.
C17_SeriesIndicesIncrease ==
    /\ \A i \in 1..Len(log) : log[i].series \in Series
    /\ \A i \in 1..Len(log) : \A j \in 1..Len(log) :
          (i < j /\ log[i].series = log[j].series) => log[i].index < log[j].index

C17_Witness ==
    \A s \in Series :
        \E i \in 1..Len(log) : \E j \in 1..Len(log) :
            i < j /\ log[i].series = s /\ log[j].series = s

\* ---------------------------------------------------------------- the process terminated
\* save_model with the process terminated inside it, after done of its
\* operations: 1 the directory made (line 384), 2 the model blob written (line
\* 385), 3 the optimizer blob written (line 386), 4 inside shutil.rmtree of line
\* 390, which unlinks the entries of the old directory one by one in the order
\* the file system lists them and removes the directory last: the entries gone
\* are unlinked, the directory is still there; 5 the old directory removed, which
\* is the whole of save_model
SaveModelCut(f, save_model_path, use_model, epoch, model, opt, done, gone) ==
    LET model_path == ModelPath(save_model_path, use_model, epoch)
        old_model_path == ModelPath(save_model_path, use_model, epoch - KeepBack)
        old == IF model_path \in DOMAIN f THEN f[model_path] ELSE <<>>
        names == (IF done >= 2 THEN {ModelFile} ELSE {})
                    \cup (IF done >= 3 THEN {OptimizerFile} ELSE {})
        written == [n \in DOMAIN old \cup names |->
                      IF n \notin names THEN old[n]
                      ELSE IF n = ModelFile THEN model ELSE opt]
        f1 == [d \in DOMAIN f \cup {model_path} |-> IF d = model_path THEN written ELSE f[d]]
    IN IF done >= 5 THEN SaveModel(f, save_model_path, use_model, epoch, model, opt)
       ELSE IF done = 4 /\ old_model_path \in DOMAIN f1
       THEN [d \in DOMAIN f1 |->
                IF d = old_model_path THEN [n \in DOMAIN f1[d] \ gone |-> f1[d][n]]
                ELSE f1[d]]
       ELSE f1

\* the points of save_model(epoch) at which the process can be terminated on
\* file system f: done as in SaveModelCut, and for done = 4 the entries of the
\* old directory already unlinked, one at least
SaveCuts(f, use_model, epoch) ==
    LET old_model_path == ModelPath(SaveModelPath, use_model, epoch - KeepBack)
    IN {[done |-> d, gone |-> {}] : d \in {1, 2, 3, 5}}
          \cup (IF old_model_path \in DOMAIN f
                THEN {[done |-> 4, gone |-> g] : g \in (SUBSET DOMAIN f[old_model_path]) \ {{}}}
                ELSE {})

\* the process of worker r is terminated before the next step of the epoch loop
\* of lines 300-350 begins: nothing more is written; the evaluation loop of
\* __test stops when it is the worker running it that is terminated
Interrupt(r) ==
    /\ proc[r].pc \in {"batch", "step", "eval", "test", "save"}
    /\ proc' = [proc EXCEPT ![r] = Fail(@, "Killed")]
    /\ ev' = IF proc[r].pc = "test" /\ ev.pc = "loop" THEN [ev EXCEPT !.pc = "error"] ELSE ev
    /\ UNCHANGED <<fs, nranks, vocabulary, nbatches, test_set, args, runs, log, effects, call, recent>>

\* lines 312-328 with the process terminated after the scalar of line 323: before
\* the out-of-cycle save (no cut) or inside the save_model of line 327; what the
\* worker did before it was terminated is recorded as in OptimizerStep: the
\* scalar written, save_model called, shutil.rmtree called
StepKilled(r) ==
    /\ proc[r].pc = "step"
    /\ GradientsSynchronized(r)
    /\ LET p == proc[r]
           after == [p EXCEPT !.model = StepModel(@), !.accum = @ + 1, !.stepped = @ + 1]
           logs == LogsNow(p.batch_id, r)
           saves == SavesNow(p.batch_id, r)
       IN /\ logs \/ saves
          /\ log' = IF logs THEN Append(log, Scalar("Train loss", ZeroScalar, p.train_step, r))
                    ELSE log
          /\ \/ /\ fs' = fs
                /\ effects' = effects \cup (IF logs THEN {Effect("scalar", r)} ELSE {})
                /\ proc' = [proc EXCEPT ![r] =
                      Fail([after EXCEPT !.train_step = IF logs THEN @ + 1 ELSE @], "Killed")]
                /\ recent' = recent
             \/ /\ saves
                /\ \E cut \in SaveCuts(fs, args.use_model, p.epoch) :
                      /\ cut.done < 5
                      /\ effects' = effects
                            \cup (IF logs THEN {Effect("scalar", r)} ELSE {})
                            \cup {Effect("save", r)}
                            \cup (IF cut.done >= 4 THEN {Effect("delete", r)} ELSE {})
                      /\ fs' = SaveModelCut(fs, SaveModelPath, args.use_model, p.epoch,
                                            after.model, OptimizerStateDict(after),
                                            cut.done, cut.gone)
                      /\ proc' = [proc EXCEPT ![r] =
                            Fail([after EXCEPT !.train_step = IF logs THEN @ + 1 ELSE @],
                                 "KilledInSave")]
                      /\ recent' = IF cut.done >= 3
                                   THEN RecordSave(recent, args.use_model, p.epoch)
                                   ELSE recent
    /\ UNCHANGED <<nranks, vocabulary, nbatches, test_set, args, runs, call, ev>>

\* __test returned and the 'Test cer' scalar of line 340 written, the process
\* terminated before the 'Learning rate' scalar of line 345
TestReturnKilled(r) ==
    /\ proc[r].pc = "test"
    /\ ev.pc = "loop" /\ ev.who = "__test"
    /\ ev.batch_id = NumBatches(test_set)
    /\ ev.c # <<>>
    /\ ev' = [ev EXCEPT !.pc = "returned", !.result = MeanOf(ev.c)]
    /\ log' = Append(log, Scalar("Test cer", MeanOf(ev.c), proc[r].test_step, r))
    /\ effects' = effects \cup {Effect("scalar", r)}
    /\ proc' = [proc EXCEPT ![r] = Fail([@ EXCEPT !.test_step = @ + 1], "Killed")]
    /\ UNCHANGED <<fs, nranks, vocabulary, nbatches, test_set, args, runs, call, recent>>

\* lines 347-350 with the process terminated inside the save_model of line 348
\* (done < 5) or after it and before scheduler.step() (done = 5); save_model
\* called and shutil.rmtree called are recorded as in EpochSave
SaveKilled(r) ==
    /\ proc[r].pc = "save"
    /\ IsPrimary(r)
    /\ LET p == proc[r]
           old_model_path == ModelPath(SaveModelPath, args.use_model, p.epoch - KeepBack)
       IN \E cut \in SaveCuts(fs, args.use_model, p.epoch) :
             /\ effects' = effects
                   \cup {Effect("save", r)}
                   \cup (IF cut.done >= 4 /\ old_model_path \in DOMAIN fs
                         THEN {Effect("delete", r)} ELSE {})
             /\ fs' = SaveModelCut(fs, SaveModelPath, args.use_model, p.epoch, p.model,
                                   OptimizerStateDict(p), cut.done, cut.gone)
             /\ proc' = [proc EXCEPT ![r] =
                   Fail([p EXCEPT !.saved = IF cut.done = 5 THEN Append(@, p.epoch) ELSE @],
                        IF cut.done = 5 THEN "Killed" ELSE "KilledInSave")]
             /\ recent' = IF cut.done >= 3 THEN RecordSave(recent, args.use_model, p.epoch)
                          ELSE recent
    /\ UNCHANGED <<nranks, vocabulary, nbatches, test_set, args, runs, log, call, ev>>

\* one train() call of a fresh trainer: of MaxLongEpoch epochs of more than
\* SaveEvery batches on any number of workers, or on one worker of as many epochs
\* more as save_model keeps, so that its last saves find an old directory to
\* remove, at the end of an epoch of few batches or at the out-of-cycle save of
\* a long one
InitCrash ==
    /\ fs = InitialFs
    /\ nranks \in 1..MaxWorkers
    /\ vocabulary = InitialVocabulary
    /\ nbatches \in {MaxBatches, SaveEvery + 1, SaveEvery + MaxLongTail}
    /\ test_set = TestSetOne
    /\ args \in {[NoArgs EXCEPT !.num_epoch = e] : e \in {MaxLongEpoch, MaxLongEpoch + KeepBack}}
    /\ IF args.num_epoch > MaxLongEpoch
       THEN nranks = 1 /\ nbatches \in {MaxBatches, SaveEvery + 1}
       ELSE nbatches > SaveEvery
    /\ runs = 0
    /\ proc = [r \in Ranks |-> IdleProc]
    /\ log = <<>>
    /\ effects = {}
    /\ call = NoCall
    /\ ev = IdleEval
    /\ recent = [v \in {DeepSpeech2, DeepSpeech2Light} |-> <<>>]

NextCrash ==
    \/ TrainCallOnce
    \/ \E r \in Ranks : Setup(r)
    \/ \E r \in Ranks : LoadData(r)
    \/ \E r \in Ranks : GetModel(r)
    \/ \E r \in Ranks : LoadPretrained(r)
    \/ \E r \in Ranks : LoadResume(r)
    \/ \E r \in Ranks : EpochBegin(r)
    \/ \E r \in Ranks : Forward(r)
    \/ \E r \in Ranks : OptimizerStep(r)
    \/ \E r \in Ranks : EpochEval(r)
    \/ \E r \in Ranks : TestBatch(r)
    \/ \E r \in Ranks : TestReturn(r)
    \/ \E r \in Ranks : EpochSave(r)
    \/ \E r \in Ranks : Interrupt(r)
    \/ \E r \in Ranks : StepKilled(r)
    \/ \E r \in Ranks : TestReturnKilled(r)
    \/ \E r \in Ranks : SaveKilled(r)

\* a long epoch in which the process may be terminated
CrashSpec == InitCrash /\ [][NextCrash]_vars

\* directory d is created or changed in this step and then holds both blobs
WrittenWhole(d) ==
    /\ d \in DOMAIN fs'
    /\ {ModelFile, OptimizerFile} \subseteq DOMAIN fs'[d]
    /\ d \in DOMAIN fs => fs'[d] # fs[d]

\* C18: a checkpoint directory holding both blobs holds the model state and the
\* optimizer state of one save: whenever such a directory is written, its two
\* blobs are the state of the saving worker at one moment.
C18_BlobsFromOneSave ==
    [][ \A d \in DOMAIN fs' :
          WrittenWhole(d) =>
              \E r \in Ranks : \E s \in {proc[r], proc'[r]} :
                  /\ fs'[d][ModelFile] = s.model
                  /\ fs'[d][OptimizerFile] = OptimizerStateDict(s)
      ]_vars

\* C19: save_model(epoch = e) creates or overwrites epoch_e and removes
\* epoch_(e-3) of the variant when it is there; every other directory, of this
\* and of any other variant, is left as it was, and the call succeeds when
\* epoch_(e-3) does not exist.
C19_SaveTouchesTwoDirectories ==
    [][ \A r \in Ranks :
          Saves(r) =>
              LET e == proc[r].epoch
                  model_path == ModelPath(SaveModelPath, args.use_model, e)
                  old_model_path == ModelPath(SaveModelPath, args.use_model, e - 3)
              IN /\ proc'[r].pc # "error"
                 /\ DOMAIN fs' = (DOMAIN fs \cup {model_path}) \ {old_model_path}
                 /\ {ModelFile, OptimizerFile} \subseteq DOMAIN fs'[model_path]
                 /\ \A d \in DOMAIN fs' : d # model_path => fs'[d] = fs[d]
      ]_vars

C19_Witness ==
    /\ proc[0].saved # <<>>
    /\ Effect("delete", 0) \in effects
    /\ \E v \in Variants : v # args.use_model /\ CheckpointEpochs(fs, v) # {}
    /\ Cardinality(CheckpointEpochs(fs, args.use_model)) = 3

\* ---------------------------------------------------------------- properties of the learning rate
\* learning_rate * 0.9^(e-1)
RateOfEpoch(e) == [milli |-> DefaultLrMilli, decay |-> e - 1]

\* C20: in a run started without a resume path every rank trains every batch of
\* epoch e with learning_rate * 0.9^(e-1), every rank steps its scheduler once
\* per epoch, and the 'Learning rate' point of index e is the rate of epoch e.
C20_RateDecaysOncePerEpoch ==
    args.resume_model = None =>
        /\ \A r \in Ranks :
              /\ Training(proc[r]) =>
                    /\ proc[r].scheduler.last_lr = RateOfEpoch(proc[r].epoch)
                    /\ proc[r].scheduler.last_epoch = proc[r].epoch - 1
              /\ proc[r].pc = "done" => proc[r].scheduler.last_epoch = args.num_epoch
        /\ proc[0].data_loaded =>
              \A i \in 1..Len(log) :
                  log[i].series = "Learning rate" =>
                      /\ log[i].value = RateOfEpoch(log[i].index)
                      /\ log[i].index \in 1..args.num_epoch

C20_Witness ==
    /\ nranks > 1
    /\ args.resume_model = None
    /\ \E r \in Ranks :
          /\ r # 0
          /\ proc[r].pc = "step" /\ proc[r].batch_id = nbatches - 1
          /\ proc[r].epoch = 3
          /\ proc[r].scheduler.last_lr = RateOfEpoch(3)
    /\ \E i \in 1..Len(log) :
          log[i].series = "Learning rate" /\ log[i].index = 2 /\ log[i].value = RateOfEpoch(2)

\* ---------------------------------------------------------------- a run interrupted and resumed
\* one worker, epochs longer than SaveEvery batches
InitInterrupt == InitLong /\ nranks = 1

\* train(num_epoch, resume_model = <an epoch_e directory of the variant>) after
\* the first run
ResumeCall ==
    /\ runs = 1
    /\ \E e \in 1..MaxLongEpoch :
          StartTrain([args EXCEPT !.use_model = DeepSpeech2,
                                  !.resume_model = ModelPath(SaveModelPath, DeepSpeech2, e),
                                  !.num_epoch = MaxLongEpoch + 1])

NextInterrupt ==
    \/ TrainCallOnce
    \/ ResumeCall
    \/ \E r \in Ranks : Setup(r)
    \/ \E r \in Ranks : LoadData(r)
    \/ \E r \in Ranks : GetModel(r)
    \/ \E r \in Ranks : LoadPretrained(r)
    \/ \E r \in Ranks : LoadResume(r)
    \/ \E r \in Ranks : EpochBegin(r)
    \/ \E r \in Ranks : Forward(r)
    \/ \E r \in Ranks : OptimizerStep(r)
    \/ \E r \in Ranks : EpochEval(r)
    \/ \E r \in Ranks : TestBatch(r)
    \/ \E r \in Ranks : TestReturn(r)
    \/ \E r \in Ranks : EpochSave(r)
    \/ \E r \in Ranks : Interrupt(r)
    \/ \E r \in Ranks : StepKilled(r)
    \/ \E r \in Ranks : TestReturnKilled(r)
    \/ \E r \in Ranks : SaveKilled(r)

InterruptSpec == InitInterrupt /\ [][NextInterrupt]_vars

\* the number of times x occurs in s
Count(s, x) == Cardinality({i \in 1..Len(s) : s[i] = x})

\* worker 0 was terminated in an epoch whose out-of-cycle save had been made and
\* whose end-of-epoch save had not
InterruptedAfterMidSave ==
    /\ proc[0].err = "Killed"
    /\ Count(proc[0].saved, proc[0].epoch) = 1

\* the train() call resumes from the epoch_e directory of its variant
ResumesFrom(e) ==
    /\ args.resume_model # None
    /\ DirOf(args.resume_model) = ModelPath(SaveModelPath, args.use_model, e)

\* the optimizer steps taken up to the out-of-cycle save of epoch e of a run
\* started afresh
StepsAtMidSave(e) == (e - 1) * nbatches + SaveEvery + 1

\* what a run resumed from epoch_e does, once past the loading of the checkpoint
ResumedSkipsEpoch(e) ==
    LET p == proc[0]
    IN (/\ runs > 1
        /\ ResumesFrom(e)
        /\ p.pc \in {"epoch", "batch", "step", "eval", "test", "save", "done"}
            \/ p.err \in {"Killed", "KilledInSave", "ZeroDivisionError"}) =>
          /\ \A i \in 1..Len(p.epochs_run) : p.epochs_run[i] = e + i
          /\ \A i \in 1..Len(p.saved) : p.saved[i] > e
          /\ p.pc \in {"batch", "step", "eval", "test", "save"} => p.epoch > e
          /\ p.test_step <= Len(p.epochs_run)
          /\ Exists(fs, args.resume_model, OptimizerFile) =>
                p.accum = Load(fs, args.resume_model, OptimizerFile).accum + p.stepped

\* C21: the checkpoint of the out-of-cycle save of epoch e lies in epoch_e; a run
\* resumed from it starts at epoch e + 1 from the state of that save: it trains no
\* batch of epoch e, so the batches after the save are in no state it trains
\* from, and it neither evaluates nor saves epoch e.
C21_MidEpochResumeSkipsRest ==
    [][ /\ \A e \in 1..(MaxLongEpoch + 1) :
             (runs' = runs + 1 /\ InterruptedAfterMidSave /\ proc[0].epoch = e
                  /\ DirOf(args'.resume_model) = ModelPath(SaveModelPath, args'.use_model, e)) =>
                 LET d == ModelPath(SaveModelPath, args'.use_model, e)
                 IN /\ d \in DOMAIN fs
                    /\ {ModelFile, OptimizerFile} \subseteq DOMAIN fs[d]
                    /\ fs[d][OptimizerFile].accum = StepsAtMidSave(e)
                    /\ \A n \in DOMAIN fs[d][ModelFile] :
                          fs[d][ModelFile][n].value = StepsAtMidSave(e)
                    /\ proc[0].accum >= StepsAtMidSave(e)
        /\ \A e \in 1..(MaxLongEpoch + 1) : ResumedSkipsEpoch(e)'
      ]_vars

C21_Witness ==
    /\ runs = 2
    /\ ResumesFrom(1)
    /\ nbatches > SaveEvery + 1
    /\ proc[0].pc = "batch" /\ proc[0].epoch = 2
    /\ proc[0].stepped = 1
    /\ proc[0].accum = StepsAtMidSave(1) + 1
    /\ proc[0].epochs_run = <<2>>
    /\ proc[0].saved = <<>> /\ proc[0].test_step = 0

\* ---------------------------------------------------------------- pretrained weights and a resume path together
InitBoth == InitWith(1, MaxBothEpoch, {TestSetOne}, {InitialFs})

\* train(num_epoch, resume_model, pretrained_model) of a trainer of a known
\* variant, each of the two paths given or left None
TrainCallBoth ==
    \E use_model \in {DeepSpeech2, DeepSpeech2Light} :
        \E pretrained_model \in {None, PretrainedPath} :
            \E resume_model \in {None} \cup PathChoices(use_model) :
                StartTrain([args EXCEPT !.use_model = use_model,
                                        !.resume_model = resume_model,
                                        !.pretrained_model = pretrained_model])

NextBoth ==
    \/ TrainCallBoth
    \/ \E r \in Ranks : Setup(r)
    \/ \E r \in Ranks : LoadData(r)
    \/ \E r \in Ranks : GetModel(r)
    \/ \E r \in Ranks : LoadPretrained(r)
    \/ \E r \in Ranks : LoadResume(r)
    \/ \E r \in Ranks : EpochBegin(r)
    \/ \E r \in Ranks : Forward(r)
    \/ \E r \in Ranks : OptimizerStep(r)
    \/ \E r \in Ranks : EpochEval(r)
    \/ \E r \in Ranks : TestBatch(r)
    \/ \E r \in Ranks : TestReturn(r)
    \/ \E r \in Ranks : EpochSave(r)

BothSpec == InitBoth /\ [][NextBoth]_vars

\* worker r is about to train the first batch of a train() call that was given
\* both paths
AtFirstBatchOfBoth(r) ==
    /\ args.pretrained_model # None
    /\ args.resume_model # None
    /\ proc[r].pc = "batch"
    /\ proc[r].stepped = 0

\* parameter n of model m is in blob d with the shape it has in m
Holds(d, m, n) == n \in DOMAIN d /\ d[n].shape = m[n].shape

\* C22 as stated: at the first batch of a train() call given both paths, every
\* parameter has the value of the resume checkpoint, the optimizer state is the
\* resumed one, and the state is what the resume alone gives.
C22_ResumeOverridesPretrained ==
    \A r \in Ranks :
        AtFirstBatchOfBoth(r) =>
            LET m == proc[r].model
                ck == Load(fs, args.resume_model, ModelFile)
                init == ModelInit(args.use_model)
            IN /\ \A n \in DOMAIN m : n \in DOMAIN ck /\ m[n].value = ck[n].value
               /\ OptimizerStateDict(proc[r]) = Load(fs, args.resume_model, OptimizerFile)
               /\ \A n \in DOMAIN m :
                     m[n].value = IF Holds(ck, init, n) THEN ck[n].value ELSE init[n].value

\* C22 amended: at the first batch of a train() call given both paths, the
\* optimizer state is the resumed one; a parameter the resume checkpoint holds
\* with the model's shape has the checkpoint's value, and any other parameter has
\* what the pretrained load left: the pretrained value when that file holds it
\* with the model's shape, the initial value otherwise. When the checkpoint holds
\* every parameter with its shape, the pretrained weights have no effect.
C22_ResumeOverridesWhatItHolds ==
    \A r \in Ranks :
        AtFirstBatchOfBoth(r) =>
            LET m == proc[r].model
                ck == Load(fs, args.resume_model, ModelFile)
                pre == Load(fs, args.pretrained_model, ModelFile)
                init == ModelInit(args.use_model)
            IN /\ DOMAIN m = DOMAIN init
               /\ OptimizerStateDict(proc[r]) = Load(fs, args.resume_model, OptimizerFile)
               /\ \A n \in DOMAIN m :
                     /\ m[n].shape = init[n].shape
                     /\ m[n].value = IF Holds(ck, init, n) THEN ck[n].value
                                     ELSE IF Holds(pre, init, n) THEN pre[n].value
                                     ELSE init[n].value
               /\ (\A n \in DOMAIN init : Holds(ck, init, n)) => m = ck

C22_Witness ==
    \E r \in Ranks :
        /\ AtFirstBatchOfBoth(r)
        /\ LET m == proc[r].model
               ck == Load(fs, args.resume_model, ModelFile)
               pre == Load(fs, args.pretrained_model, ModelFile)
           IN /\ m = ck
              /\ \E n \in DOMAIN m : Holds(pre, m, n) /\ pre[n].value # m[n].value
              /\ proc[r].accum > 0

====
